---- MODULE Spec2Model ----
(***************************************************************************)
(* State-machine model of the campus social backend: the friendship        *)
(* request / friendship tables and the handlers of the friendships router, *)
(* the reconciliation pass of the user-management router, the posts,       *)
(* comments and reactions tables with the handlers of their routers, the   *)
(* home feed, and the notification rows those handlers emit.               *)
(*                                                                         *)
(* Every handler runs in its own database session; a handler is one        *)
(* action, and the state is the committed content of the tables plus the   *)
(* response the last handler returned.  Where the interleaving of          *)
(* sessions matters, the reconciliation pass is split into the read that   *)
(* opens its transaction and the commit that ends it.                      *)
(***************************************************************************)
EXTENDS Integers, FiniteSets, Sequences, TLC

VARIABLES friendships, requests, notifications, resp,
          posts, comments, reactions, feed, passes, inflight

vars == <<friendships, requests, notifications, resp,
          posts, comments, reactions, feed, passes, inflight>>

\* the tables and the response of the friendship handlers
social_vars == <<friendships, requests, notifications, resp>>
\* the tables of the posts routers and the last feed page
content_vars == <<posts, comments, reactions, feed>>

(* ---------------------------------------------------------------------- *)
(* Bounds                                                                  *)
(* ---------------------------------------------------------------------- *)
NumUsers == 2
MaxRequestRows == 2
MaxNotifications == 1
NumSessions == 2
MaxPosts == 2
MaxComments == 3
MaxCommentRows == 2
MaxRacePosts == 1
MaxReactions == 2
MaxTime == 2
MaxSkip == 2
MaxLimit == 2

Users == 1..NumUsers
\* an id that names no row of the users table
NoUser == 0
UserIds == Users \cup {NoUser}
RequestIds == 1..MaxRequestRows
\* a request id that names no row
NoRequest == 0
NotificationIds == 1..MaxNotifications
PostIds == 1..MaxPosts
\* a post id that names no row
NoPost == 0
CommentIds == 1..MaxComments
\* parent_id of a top-level comment, and a comment id that names no row
NoComment == 0
ReactionIds == 1..MaxReactions
\* the texts a client submits as content
Contents == {"a", "b"}
\* ReactionBase validates reaction_type against this list
allowed_types == {"like", "love", "haha", "wow", "sad", "angry"}
\* the database sessions that can hold a reconciliation pass open at once
Sessions == 1..NumSessions

\* FriendshipRequestUpdate.status is validated against this list
allowed_statuses == {"accepted", "rejected"}

\* Where a "with db.begin()" block can fail: "begin" is an exception raised
\* by db.begin() itself (nothing of the block ran, the session keeps its
\* pending changes), "rollback" is an exception raised inside the block or
\* at its commit (the session's transaction is rolled back).
Faults == {"none", "begin", "rollback"}

(* ---------------------------------------------------------------------- *)
(* Rows                                                                    *)
(* ---------------------------------------------------------------------- *)
Friendship(user_id, friend_id) == <<user_id, friend_id>>

FriendshipRequest(id, sender_id, receiver_id, status) ==
    [id |-> id, sender_id |-> sender_id, receiver_id |-> receiver_id, status |-> status]

Notification(id, user_id, actor_id, type, related_id) ==
    [id |-> id, user_id |-> user_id, actor_id |-> actor_id, type |-> type,
     related_id |-> related_id]

Response(op, user, arg, status, code) ==
    [op |-> op, user |-> user, arg |-> arg, status |-> status, code |-> code]

Post(id, author_id, content, created_at) ==
    [id |-> id, author_id |-> author_id, content |-> content, created_at |-> created_at]

Comment(id, author_id, post_id, parent_id, content) ==
    [id |-> id, author_id |-> author_id, post_id |-> post_id, parent_id |-> parent_id,
     content |-> content]

Reaction(id, user_id, post_id, reaction_type) ==
    [id |-> id, user_id |-> user_id, post_id |-> post_id, reaction_type |-> reaction_type]

\* user_reaction of a feed item when the caller has not reacted
NoReaction == Reaction(0, NoUser, NoPost, "")

FeedItem(post, author, comment_count, reaction_count, has_reacted, reaction_type) ==
    [post |-> post, author |-> author, comment_count |-> comment_count,
     reaction_count |-> reaction_count, has_reacted |-> has_reacted,
     reaction_type |-> reaction_type]

\* FeedResponse, with the request it answers and the friend ids that
\* get_home_feed resolved for it
FeedResponse(user, skip, limit, friend_ids, items, total, has_more) ==
    [user |-> user, skip |-> skip, limit |-> limit, friend_ids |-> friend_ids,
     items |-> items, total |-> total, has_more |-> has_more]

\* the last handler served no feed page
NoFeed == FeedResponse(NoUser, 0, 0, {}, <<>>, 0, FALSE)

\* a session that has no reconciliation pass open
NoPass == [open |-> FALSE, user |-> NoUser, added |-> {}]

\* A session that serves no request.  A request in flight is recorded by
\* the statement it has reached (pc), its caller, the id in its path (arg),
\* the value in its body (input) and the rows its statements have read or
\* deleted so far (seen).
NoCall == [pc |-> "idle", user |-> NoUser, arg |-> 0, input |-> "", seen |-> {}]

Call(pc, user, arg, input, seen) ==
    [pc |-> pc, user |-> user, arg |-> arg, input |-> input, seen |-> seen]

\* uuid4(): an id no row of the table carries
FreshIds(ids, used) == {i \in ids : i \notin used /\ \A j \in ids : j < i => j \in used}

(* ---------------------------------------------------------------------- *)
(* Queries                                                                 *)
(* ---------------------------------------------------------------------- *)
get_user(user_id) == user_id \in Users

\* get_friend_request with receiver_id compared against both columns
get_friend_request_typo(reqs, sender_id, receiver_id) ==
    {r \in reqs : r.sender_id = receiver_id /\ r.receiver_id = receiver_id}

\* the rows .first() can return
get_friend_request(reqs, sender_id, receiver_id) ==
    {r \in reqs : r.sender_id = sender_id /\ r.receiver_id = receiver_id}

get_friend_request_by_id(reqs, request_id) == {r \in reqs : r.id = request_id}

get_bidirectional_friendship_filter(row, user_id, friend_id) ==
    \/ (row[1] = user_id /\ row[2] = friend_id)
    \/ (row[1] = friend_id /\ row[2] = user_id)

get_friendship(fs, user_id, friend_id) ==
    {row \in fs : get_bidirectional_friendship_filter(row, user_id, friend_id)}

\* check_friendship looking up the pair (user_id, user_id)
check_friendship_self(fs, user_id, friend_id) == get_friendship(fs, user_id, user_id) # {}

check_friendship(fs, user_id, friend_id) == get_friendship(fs, user_id, friend_id) # {}

(* ---------------------------------------------------------------------- *)
(* Friendship mutations                                                    *)
(* ---------------------------------------------------------------------- *)
\* create_friendship adding only the row user_id -> friend_id
create_friendship_one_way(fs, user_id, friend_id, fault) ==
    IF get_friendship(fs, user_id, friend_id) # {}
    THEN [fs |-> fs, ok |-> FALSE, rolled_back |-> FALSE]
    ELSE IF fault = "none"
    THEN [fs |-> fs \cup {Friendship(user_id, friend_id)},
          ok |-> TRUE, rolled_back |-> FALSE]
    ELSE [fs |-> fs, ok |-> FALSE, rolled_back |-> (fault = "rollback")]

\* Result: the friendship table, the returned flag, and whether the
\* session's transaction was rolled back.
create_friendship(fs, user_id, friend_id, fault) ==
    IF get_friendship(fs, user_id, friend_id) # {}
    THEN [fs |-> fs, ok |-> FALSE, rolled_back |-> FALSE]
    ELSE IF fault = "none"
    THEN [fs |-> fs \cup {Friendship(user_id, friend_id), Friendship(friend_id, user_id)},
          ok |-> TRUE, rolled_back |-> FALSE]
    ELSE [fs |-> fs, ok |-> FALSE, rolled_back |-> (fault = "rollback")]

remove_friendship(fs, reqs, user_id, friend_id, fault) ==
    IF fault = "none"
    THEN [fs |-> fs \ get_friendship(fs, user_id, friend_id),
          reqs |-> reqs \ (get_friend_request(reqs, user_id, friend_id)
                           \cup get_friend_request(reqs, friend_id, user_id)),
          ok |-> TRUE]
    ELSE [fs |-> fs, reqs |-> reqs, ok |-> FALSE]

(* ---------------------------------------------------------------------- *)
(* Request mutations                                                       *)
(* ---------------------------------------------------------------------- *)
\* The outcomes of create_friend_request: one per row .first() can return
\* and per fresh id.
create_friend_request(fs, reqs, sender_id, receiver_id, fault) ==
    IF get_friend_request(reqs, sender_id, receiver_id) # {}
    THEN {[fs |-> fs, reqs |-> reqs, request |-> existing_request] :
              existing_request \in get_friend_request(reqs, sender_id, receiver_id)}
    ELSE IF get_friend_request(reqs, receiver_id, sender_id) # {}
    THEN {LET accepted == [reverse_request EXCEPT !.status = "accepted"]
              created == create_friendship(fs, sender_id, receiver_id, fault)
              committed == IF created.rolled_back THEN reverse_request ELSE accepted
          IN [fs |-> created.fs,
              reqs |-> (reqs \ {reverse_request}) \cup {committed},
              request |-> committed] :
              reverse_request \in get_friend_request(reqs, receiver_id, sender_id)}
    ELSE {LET friend_request == FriendshipRequest(id, sender_id, receiver_id, "pending")
          IN [fs |-> fs, reqs |-> reqs \cup {friend_request}, request |-> friend_request] :
              id \in FreshIds(RequestIds, {r.id : r \in reqs})}

update_friend_request(fs, reqs, friend_request, status, fault) ==
    LET updated == [friend_request EXCEPT !.status = status]
        created == IF status = "accepted"
                   THEN create_friendship(fs, friend_request.sender_id,
                                          friend_request.receiver_id, fault)
                   ELSE [fs |-> fs, ok |-> FALSE, rolled_back |-> FALSE]
        committed == IF created.rolled_back THEN friend_request ELSE updated
    IN [fs |-> created.fs,
        reqs |-> (reqs \ {friend_request}) \cup {committed},
        request |-> committed]

delete_friend_request(reqs, friend_request) == reqs \ {friend_request}

(* ---------------------------------------------------------------------- *)
(* Notifications                                                           *)
(* ---------------------------------------------------------------------- *)
\* create_notification raising is caught by the event function; nfault
\* says whether it raises.
create_notification(notifs, user_id, actor_id, type, related_id, nfault) ==
    IF nfault
    THEN {notifs}
    ELSE {notifs \cup {Notification(id, user_id, actor_id, type, related_id)} :
              id \in FreshIds(NotificationIds, {n.id : n \in notifs})}

create_friend_request_notification(notifs, sender_id, receiver_id, request_id, nfault) ==
    IF ~get_user(sender_id)
    THEN {notifs}
    ELSE create_notification(notifs, receiver_id, sender_id, "friend_request",
                             request_id, nfault)

create_friend_request_accepted_notification(notifs, accepter_id, requester_id, nfault) ==
    IF ~get_user(accepter_id)
    THEN {notifs}
    ELSE create_notification(notifs, requester_id, accepter_id, "friend_accepted",
                             NoRequest, nfault)

\* A row is inserted into the notifications table only while the bounded
\* table has room; otherwise only the failing outcome is drawn.
NotificationRoom(nfault) == nfault \/ Cardinality(notifications) < MaxNotifications

\* create_post_like_notification notifying the author of their own reaction
create_post_like_notification_own_post(notifs, ps, post_id, liker_id, nfault) ==
    IF {p \in ps : p.id = post_id} = {}
    THEN {notifs}
    ELSE UNION {IF ~get_user(liker_id)
                THEN {notifs}
                ELSE create_notification(notifs, post.author_id, liker_id, "post_like",
                                         post_id, nfault) :
                    post \in {p \in ps : p.id = post_id}}

\* The event functions of posts: the post is looked up again and its
\* author is not notified of their own reaction or comment.
create_post_like_notification(notifs, ps, post_id, liker_id, nfault) ==
    IF {p \in ps : p.id = post_id} = {}
    THEN {notifs}
    ELSE UNION {IF post.author_id = liker_id \/ ~get_user(liker_id)
                THEN {notifs}
                ELSE create_notification(notifs, post.author_id, liker_id, "post_like",
                                         post_id, nfault) :
                    post \in {p \in ps : p.id = post_id}}

create_post_comment_notification(notifs, ps, post_id, comment_id, commenter_id, nfault) ==
    IF {p \in ps : p.id = post_id} = {}
    THEN {notifs}
    ELSE UNION {IF post.author_id = commenter_id \/ ~get_user(commenter_id)
                THEN {notifs}
                ELSE create_notification(notifs, post.author_id, commenter_id,
                                         "post_comment", comment_id, nfault) :
                    post \in {p \in ps : p.id = post_id}}

(* ---------------------------------------------------------------------- *)
(* Posts, comments and reactions: services                                 *)
(* ---------------------------------------------------------------------- *)
\* the rows .first() can return
get_post(ps, post_id) == {p \in ps : p.id = post_id}

\* func.now(): later than the created_at of every stored post
now(ps) == IF ps = {} THEN 1
           ELSE 1 + (CHOOSE t \in {p.created_at : p \in ps} :
                         \A p \in ps : p.created_at <= t)

\* The outcomes of create_post, one per fresh id: the table and the row.
create_post(ps, content, author_id) ==
    {LET post == Post(id, author_id, content, now(ps))
     IN [posts |-> ps \cup {post}, post |-> post] :
         id \in FreshIds(PostIds, {p.id : p \in ps})}

update_post(ps, post, content) ==
    (ps \ {post}) \cup {[post EXCEPT !.content = content]}

\* delete_post leaving the comments of the post in place
delete_post_keep_comments(ps, cs, rs, post) ==
    [posts |-> ps \ {post},
     comments |-> cs,
     reactions |-> {r \in rs : r.post_id # post.id}]

\* The three deletes are committed by the one db.commit() that ends
\* delete_post: the result is the three tables after that commit.
delete_post(ps, cs, rs, post) ==
    [posts |-> ps \ {post},
     comments |-> {c \in cs : c.post_id # post.id},
     reactions |-> {r \in rs : r.post_id # post.id}]

get_comment(cs, comment_id) == {c \in cs : c.id = comment_id}

create_comment(cs, post_id, parent_id, content, author_id) ==
    {LET comment == Comment(id, author_id, post_id, parent_id, content)
     IN [comments |-> cs \cup {comment}, comment |-> comment] :
         id \in FreshIds(CommentIds, {c.id : c \in cs})}

update_comment(cs, comment, content) ==
    (cs \ {comment}) \cup {[comment EXCEPT !.content = content]}

\* The DELETE of a comment that replies still reference violates the
\* foreign key of parent_id: ok is FALSE and nothing is committed.
delete_comment(cs, comment) ==
    IF \E c \in cs : c.parent_id = comment.id
    THEN [comments |-> cs, ok |-> FALSE]
    ELSE [comments |-> cs \ {comment}, ok |-> TRUE]

\* the rows .first() can return
get_reaction(rs, user_id, post_id) ==
    {r \in rs : r.user_id = user_id /\ r.post_id = post_id}

\* create_or_update_reaction inserting a row whether or not one exists
create_or_update_reaction_insert_only(rs, reaction_type, post_id, user_id) ==
    {LET reaction == Reaction(id, user_id, post_id, reaction_type)
     IN [reactions |-> rs \cup {reaction}, reaction |-> reaction, created |-> TRUE] :
         id \in FreshIds(ReactionIds, {r.id : r \in rs})}

\* The outcomes of create_or_update_reaction: one per row .first() can
\* return, or one per fresh id; created says whether a row was inserted.
create_or_update_reaction(rs, reaction_type, post_id, user_id) ==
    IF get_reaction(rs, user_id, post_id) # {}
    THEN {LET reaction == [existing_reaction EXCEPT !.reaction_type = reaction_type]
          IN [reactions |-> (rs \ {existing_reaction}) \cup {reaction},
              reaction |-> reaction, created |-> FALSE] :
              existing_reaction \in get_reaction(rs, user_id, post_id)}
    ELSE {LET reaction == Reaction(id, user_id, post_id, reaction_type)
          IN [reactions |-> rs \cup {reaction}, reaction |-> reaction, created |-> TRUE] :
              id \in FreshIds(ReactionIds, {r.id : r \in rs})}

delete_reaction(rs, reaction) == rs \ {reaction}

(* ---------------------------------------------------------------------- *)
(* Handlers of the friendships router                                      *)
(* ---------------------------------------------------------------------- *)
send_friend_request(current_user, receiver_id) ==
    IF ~get_user(receiver_id)
    THEN /\ resp' = Response("send", current_user, receiver_id, "", 404)
         /\ UNCHANGED <<friendships, requests, notifications>>
    ELSE IF current_user = receiver_id
    THEN /\ resp' = Response("send", current_user, receiver_id, "", 400)
         /\ UNCHANGED <<friendships, requests, notifications>>
    ELSE IF check_friendship(friendships, current_user, receiver_id)
    THEN /\ resp' = Response("send", current_user, receiver_id, "", 400)
         /\ UNCHANGED <<friendships, requests, notifications>>
    ELSE IF get_friend_request(requests, current_user, receiver_id) # {}
    THEN /\ resp' = Response("send", current_user, receiver_id, "", 400)
         /\ UNCHANGED <<friendships, requests, notifications>>
    ELSE IF get_friend_request(requests, receiver_id, current_user) # {}
    THEN /\ resp' = Response("send", current_user, receiver_id, "", 400)
         /\ UNCHANGED <<friendships, requests, notifications>>
    ELSE \E fault \in Faults, nfault \in BOOLEAN :
         \E out \in create_friend_request(friendships, requests, current_user,
                                          receiver_id, fault) :
            /\ NotificationRoom(nfault)
            /\ friendships' = out.fs
            /\ requests' = out.reqs
            /\ notifications' \in create_friend_request_notification(
                   notifications, current_user, receiver_id, out.request.id, nfault)
            /\ resp' = Response("send", current_user, receiver_id, out.request.status, 200)

\* respond_to_friend_request without the check that the request is pending
respond_to_friend_request_unchecked(current_user, request_id, status) ==
    IF get_friend_request_by_id(requests, request_id) = {}
    THEN /\ resp' = Response("respond", current_user, request_id, status, 404)
         /\ UNCHANGED <<friendships, requests, notifications>>
    ELSE \E friend_request \in get_friend_request_by_id(requests, request_id) :
        IF friend_request.receiver_id # current_user
        THEN /\ resp' = Response("respond", current_user, request_id, status, 403)
             /\ UNCHANGED <<friendships, requests, notifications>>
        ELSE \E fault \in Faults, nfault \in BOOLEAN :
             LET out == update_friend_request(friendships, requests, friend_request,
                                              status, fault)
             IN /\ NotificationRoom(nfault)
                /\ friendships' = out.fs
                /\ requests' = out.reqs
                /\ IF status = "accepted"
                   THEN notifications' \in create_friend_request_accepted_notification(
                            notifications, current_user, friend_request.sender_id, nfault)
                   ELSE notifications' = notifications
                /\ resp' = Response("respond", current_user, request_id, status, 200)

respond_to_friend_request(current_user, request_id, status) ==
    IF get_friend_request_by_id(requests, request_id) = {}
    THEN /\ resp' = Response("respond", current_user, request_id, status, 404)
         /\ UNCHANGED <<friendships, requests, notifications>>
    ELSE \E friend_request \in get_friend_request_by_id(requests, request_id) :
        IF friend_request.receiver_id # current_user
        THEN /\ resp' = Response("respond", current_user, request_id, status, 403)
             /\ UNCHANGED <<friendships, requests, notifications>>
        ELSE IF friend_request.status # "pending"
        THEN /\ resp' = Response("respond", current_user, request_id, status, 400)
             /\ UNCHANGED <<friendships, requests, notifications>>
        ELSE \E fault \in Faults, nfault \in BOOLEAN :
             LET out == update_friend_request(friendships, requests, friend_request,
                                              status, fault)
             IN /\ NotificationRoom(nfault)
                /\ friendships' = out.fs
                /\ requests' = out.reqs
                /\ IF status = "accepted"
                   THEN notifications' \in create_friend_request_accepted_notification(
                            notifications, current_user, friend_request.sender_id, nfault)
                   ELSE notifications' = notifications
                /\ resp' = Response("respond", current_user, request_id, status, 200)

cancel_friend_request(current_user, request_id) ==
    IF get_friend_request_by_id(requests, request_id) = {}
    THEN /\ resp' = Response("cancel", current_user, request_id, "", 404)
         /\ UNCHANGED <<friendships, requests, notifications>>
    ELSE \E friend_request \in get_friend_request_by_id(requests, request_id) :
        IF friend_request.sender_id # current_user
        THEN /\ resp' = Response("cancel", current_user, request_id, "", 403)
             /\ UNCHANGED <<friendships, requests, notifications>>
        ELSE /\ requests' = delete_friend_request(requests, friend_request)
             /\ resp' = Response("cancel", current_user, request_id, "", 200)
             /\ UNCHANGED <<friendships, notifications>>

remove_friend(current_user, friend_id) ==
    IF ~get_user(friend_id)
    THEN /\ resp' = Response("remove", current_user, friend_id, "", 404)
         /\ UNCHANGED <<friendships, requests, notifications>>
    ELSE IF ~check_friendship(friendships, current_user, friend_id)
    THEN /\ resp' = Response("remove", current_user, friend_id, "", 400)
         /\ UNCHANGED <<friendships, requests, notifications>>
    ELSE \E fault \in Faults :
         LET out == remove_friendship(friendships, requests, current_user, friend_id, fault)
         IN /\ friendships' = out.fs
            /\ requests' = out.reqs
            /\ resp' = Response("remove", current_user, friend_id, "", 200)
            /\ UNCHANGED notifications

(* ---------------------------------------------------------------------- *)
(* Handlers of the posts, comments and reactions routers                   *)
(* ---------------------------------------------------------------------- *)
\* what no handler of these routers touches
other_vars == <<friendships, requests, passes, inflight>>

\* A post is stamped only while the bounded clock has a value left.
PostRoom == now(posts) <= MaxTime

\* The specifications of the feed and of the cascade hold the comments
\* table to MaxCommentRows rows.
CommentRoom == Cardinality(comments) < MaxCommentRows

create_new_post(current_user, content) ==
    /\ PostRoom
    /\ \E out \in create_post(posts, content, current_user) :
           /\ posts' = out.posts
           /\ resp' = Response("create_post", current_user, out.post.id, "", 200)
    /\ feed' = NoFeed
    /\ UNCHANGED <<comments, reactions, notifications, other_vars>>

read_post_by_id(current_user, post_id) ==
    /\ IF get_post(posts, post_id) = {}
       THEN resp' = Response("read_post", current_user, post_id, "", 404)
       ELSE resp' = Response("read_post", current_user, post_id, "", 200)
    /\ feed' = NoFeed
    /\ UNCHANGED <<posts, comments, reactions, notifications, other_vars>>

\* update_post_by_id without the check of the author
update_post_by_id_unchecked(current_user, post_id, content) ==
    /\ IF get_post(posts, post_id) = {}
       THEN /\ resp' = Response("update_post", current_user, post_id, "", 404)
            /\ UNCHANGED posts
       ELSE \E post \in get_post(posts, post_id) :
            /\ posts' = update_post(posts, post, content)
            /\ resp' = Response("update_post", current_user, post_id, "", 200)
    /\ feed' = NoFeed
    /\ UNCHANGED <<comments, reactions, notifications, other_vars>>

update_post_by_id(current_user, post_id, content) ==
    /\ IF get_post(posts, post_id) = {}
       THEN /\ resp' = Response("update_post", current_user, post_id, "", 404)
            /\ UNCHANGED posts
       ELSE \E post \in get_post(posts, post_id) :
            IF post.author_id # current_user
            THEN /\ resp' = Response("update_post", current_user, post_id, "", 403)
                 /\ UNCHANGED posts
            ELSE /\ posts' = update_post(posts, post, content)
                 /\ resp' = Response("update_post", current_user, post_id, "", 200)
    /\ feed' = NoFeed
    /\ UNCHANGED <<comments, reactions, notifications, other_vars>>

delete_post_by_id(current_user, post_id) ==
    /\ IF get_post(posts, post_id) = {}
       THEN /\ resp' = Response("delete_post", current_user, post_id, "", 404)
            /\ UNCHANGED <<posts, comments, reactions>>
       ELSE \E post \in get_post(posts, post_id) :
            IF post.author_id # current_user
            THEN /\ resp' = Response("delete_post", current_user, post_id, "", 403)
                 /\ UNCHANGED <<posts, comments, reactions>>
            ELSE LET out == delete_post(posts, comments, reactions, post)
                 IN /\ posts' = out.posts
                    /\ comments' = out.comments
                    /\ reactions' = out.reactions
                    /\ resp' = Response("delete_post", current_user, post_id, "", 200)
    /\ feed' = NoFeed
    /\ UNCHANGED <<notifications, other_vars>>

\* _validate_post, _validate_comment and _validate_ownership of the
\* comments router: the status they raise, or 200 when all pass.
validate_comment_request(ps, cs, post_id, comment_id, current_user) ==
    IF get_post(ps, post_id) = {} THEN {404}
    ELSE IF get_comment(cs, comment_id) = {} THEN {404}
    ELSE {IF comment.post_id # post_id THEN 400
          ELSE IF comment.author_id # current_user THEN 403
          ELSE 200 : comment \in get_comment(cs, comment_id)}

\* create_new_comment without the validation of the parent comment
create_new_comment_unvalidated(current_user, post_id, parent_id, content) ==
    /\ IF get_post(posts, post_id) = {}
       THEN /\ resp' = Response("create_comment", current_user, NoComment, "", 404)
            /\ UNCHANGED <<comments, notifications>>
       ELSE \E nfault \in BOOLEAN :
            \E out \in create_comment(comments, post_id, parent_id, content, current_user) :
               /\ NotificationRoom(nfault)
               /\ comments' = out.comments
               /\ notifications' \in create_post_comment_notification(
                      notifications, posts, post_id, out.comment.id, current_user, nfault)
               /\ resp' = Response("create_comment", current_user, out.comment.id, "", 200)
    /\ feed' = NoFeed
    /\ UNCHANGED <<posts, reactions, other_vars>>

create_new_comment(current_user, post_id, parent_id, content) ==
    /\ IF get_post(posts, post_id) = {}
       THEN /\ resp' = Response("create_comment", current_user, NoComment, "", 404)
            /\ UNCHANGED <<comments, notifications>>
       ELSE IF parent_id # NoComment /\ get_comment(comments, parent_id) = {}
       THEN /\ resp' = Response("create_comment", current_user, NoComment, "", 404)
            /\ UNCHANGED <<comments, notifications>>
       ELSE IF /\ parent_id # NoComment
               /\ \E parent \in get_comment(comments, parent_id) : parent.post_id # post_id
       THEN /\ resp' = Response("create_comment", current_user, NoComment, "", 400)
            /\ UNCHANGED <<comments, notifications>>
       ELSE \E nfault \in BOOLEAN :
            \E out \in create_comment(comments, post_id, parent_id, content, current_user) :
               /\ NotificationRoom(nfault)
               /\ comments' = out.comments
               /\ notifications' \in create_post_comment_notification(
                      notifications, posts, post_id, out.comment.id, current_user, nfault)
               /\ resp' = Response("create_comment", current_user, out.comment.id, "", 200)
    /\ feed' = NoFeed
    /\ UNCHANGED <<posts, reactions, other_vars>>

\* The responses to requests on a comment record the path of the request:
\* the post id and the comment id.
update_comment_by_id(current_user, post_id, comment_id, content) ==
    /\ \E code \in validate_comment_request(posts, comments, post_id, comment_id,
                                             current_user) :
           IF code # 200
           THEN /\ resp' = Response("update_comment", current_user,
                                    <<post_id, comment_id>>, "", code)
                /\ UNCHANGED comments
           ELSE \E comment \in get_comment(comments, comment_id) :
                /\ comments' = update_comment(comments, comment, content)
                /\ resp' = Response("update_comment", current_user,
                                    <<post_id, comment_id>>, "", 200)
    /\ feed' = NoFeed
    /\ UNCHANGED <<posts, reactions, notifications, other_vars>>

delete_comment_by_id(current_user, post_id, comment_id) ==
    /\ \E code \in validate_comment_request(posts, comments, post_id, comment_id,
                                             current_user) :
           IF code # 200
           THEN /\ resp' = Response("delete_comment", current_user,
                                    <<post_id, comment_id>>, "", code)
                /\ UNCHANGED comments
           ELSE \E comment \in get_comment(comments, comment_id) :
                LET out == delete_comment(comments, comment)
                IN /\ comments' = out.comments
                   /\ resp' = Response("delete_comment", current_user,
                                       <<post_id, comment_id>>, "",
                                       IF out.ok THEN 200 ELSE 500)
    /\ feed' = NoFeed
    /\ UNCHANGED <<posts, reactions, notifications, other_vars>>

\* create_or_update_post_reaction failing, with the reaction undone, when
\* the notification cannot be created
create_or_update_post_reaction_strict(current_user, post_id, reaction_type) ==
    /\ IF reaction_type \notin allowed_types
       THEN /\ resp' = Response("react", current_user, post_id, reaction_type, 422)
            /\ UNCHANGED <<reactions, notifications>>
       ELSE IF get_post(posts, post_id) = {}
       THEN /\ resp' = Response("react", current_user, post_id, reaction_type, 404)
            /\ UNCHANGED <<reactions, notifications>>
       ELSE \E nfault \in BOOLEAN :
            \E out \in create_or_update_reaction(reactions, reaction_type, post_id,
                                                 current_user) :
               /\ NotificationRoom(nfault)
               /\ IF out.created /\ nfault
                  THEN /\ resp' = Response("react", current_user, post_id, reaction_type, 500)
                       /\ UNCHANGED <<reactions, notifications>>
                  ELSE /\ reactions' = out.reactions
                       /\ IF out.created
                          THEN notifications' \in create_post_like_notification(
                                   notifications, posts, post_id, current_user, nfault)
                          ELSE notifications' = notifications
                       /\ resp' = Response("react", current_user, post_id, reaction_type, 200)
    /\ feed' = NoFeed
    /\ UNCHANGED <<posts, comments, other_vars>>

create_or_update_post_reaction(current_user, post_id, reaction_type) ==
    /\ IF reaction_type \notin allowed_types
       THEN /\ resp' = Response("react", current_user, post_id, reaction_type, 422)
            /\ UNCHANGED <<reactions, notifications>>
       ELSE IF get_post(posts, post_id) = {}
       THEN /\ resp' = Response("react", current_user, post_id, reaction_type, 404)
            /\ UNCHANGED <<reactions, notifications>>
       ELSE \E nfault \in BOOLEAN :
            \E out \in create_or_update_reaction(reactions, reaction_type, post_id,
                                                 current_user) :
               /\ NotificationRoom(nfault)
               /\ reactions' = out.reactions
               /\ IF out.created
                  THEN notifications' \in create_post_like_notification(
                           notifications, posts, post_id, current_user, nfault)
                  ELSE notifications' = notifications
               /\ resp' = Response("react", current_user, post_id, reaction_type, 200)
    /\ feed' = NoFeed
    /\ UNCHANGED <<posts, comments, other_vars>>

delete_post_reaction(current_user, post_id) ==
    /\ IF get_post(posts, post_id) = {}
       THEN /\ resp' = Response("unreact", current_user, post_id, "", 404)
            /\ UNCHANGED reactions
       ELSE IF get_reaction(reactions, current_user, post_id) = {}
       THEN /\ resp' = Response("unreact", current_user, post_id, "", 404)
            /\ UNCHANGED reactions
       ELSE \E reaction \in get_reaction(reactions, current_user, post_id) :
            /\ reactions' = delete_reaction(reactions, reaction)
            /\ resp' = Response("unreact", current_user, post_id,
                                reaction.reaction_type, 200)
    /\ feed' = NoFeed
    /\ UNCHANGED <<posts, comments, notifications, other_vars>>

(* ---------------------------------------------------------------------- *)
(* Home feed                                                               *)
(* ---------------------------------------------------------------------- *)
\* SQL coalesce of two user-id columns; NoUser stands for NULL
coalesce(a, b) == IF a # NoUser THEN a ELSE b

\* the feed's friend ids resolved as every other user
get_friend_ids_all_users(fs, user_id) == Users \ {user_id}

\* One query over the rows that name user_id in either column; the
\* selected expression is coalesce(friend_id, user_id).
get_friend_ids(fs, user_id) ==
    LET rows == {row \in fs : row[1] = user_id \/ row[2] = user_id}
    IN {friend_id \in {coalesce(row[2], row[1]) : row \in rows} : friend_id # user_id}

\* ORDER BY created_at DESC
RECURSIVE order_by_desc(_)
order_by_desc(rows) ==
    IF rows = {} THEN <<>>
    ELSE LET first == CHOOSE r \in rows :
                          \A q \in rows : q.post.created_at <= r.post.created_at
         IN <<first>> \o order_by_desc(rows \ {first})

\* The aggregate query: posts joined to their author, left-joined to
\* comments and left-joined to reactions, grouped by post.  A post's group
\* holds one joined row per (comment, reaction) combination, a missing side
\* being one NULL; count(column) counts the joined rows where the column
\* is not NULL.
build_feed_query(ps, cs, rs, author_ids) ==
    LET comment_side(post) ==
            IF {c \in cs : c.post_id = post.id} = {} THEN {NoComment}
            ELSE {c.id : c \in {c \in cs : c.post_id = post.id}}
        reaction_side(post) ==
            IF {r \in rs : r.post_id = post.id} = {} THEN {0}
            ELSE {r.id : r \in {r \in rs : r.post_id = post.id}}
        joined(post) == comment_side(post) \X reaction_side(post)
        group(post) ==
            [post |-> post,
             author |-> post.author_id,
             comment_count |-> Cardinality({j \in joined(post) : j[1] # NoComment}),
             reaction_count |-> Cardinality({j \in joined(post) : j[2] # 0})]
    IN order_by_desc({group(post) : post \in {p \in ps : /\ get_user(p.author_id)
                                                          /\ p.author_id \in author_ids}})

create_feed_item(post_data, user_reaction) ==
    FeedItem(post_data.post, post_data.author, post_data.comment_count,
             post_data.reaction_count, user_reaction # NoReaction,
             user_reaction.reaction_type)

\* query.offset(skip).limit(limit)
offset_limit(query, skip, limit) ==
    SubSeq(query, skip + 1, IF skip + limit < Len(query) THEN skip + limit ELSE Len(query))

\* the rows .first() can return for the caller's reaction to each post
user_reactions(rs, user_id) ==
    {f \in [PostIds -> rs \cup {NoReaction}] :
        \A id \in PostIds :
            IF get_reaction(rs, user_id, id) = {}
            THEN f[id] = NoReaction
            ELSE f[id] \in get_reaction(rs, user_id, id)}

\* get_home_feed with has_more computed from the offset alone
get_home_feed_more_after_skip(fs, ps, cs, rs, user_id, skip, limit) ==
    LET friend_ids == get_friend_ids(fs, user_id)
        author_ids == friend_ids \cup {user_id}
        query == build_feed_query(ps, cs, rs, author_ids)
        total == Len(query)
        page == offset_limit(query, skip, limit)
    IN {FeedResponse(user_id, skip, limit, friend_ids,
                     [i \in 1..Len(page) |->
                         create_feed_item(page[i], user_reaction[page[i].post.id])],
                     total, total > skip) :
            user_reaction \in user_reactions(rs, user_id)}

\* The responses get_home_feed can return: one per choice of .first().
get_home_feed(fs, ps, cs, rs, user_id, skip, limit) ==
    LET friend_ids == get_friend_ids(fs, user_id)
        author_ids == friend_ids \cup {user_id}
        query == build_feed_query(ps, cs, rs, author_ids)
        total == Len(query)
        page == offset_limit(query, skip, limit)
    IN {FeedResponse(user_id, skip, limit, friend_ids,
                     [i \in 1..Len(page) |->
                         create_feed_item(page[i], user_reaction[page[i].post.id])],
                     total, total > skip + limit) :
            user_reaction \in user_reactions(rs, user_id)}

read_home_feed(current_user, skip, limit) ==
    /\ feed' \in get_home_feed(friendships, posts, comments, reactions,
                                current_user, skip, limit)
    /\ resp' = Response("feed", current_user, 0, "", 200)
    /\ UNCHANGED <<posts, comments, reactions, notifications, other_vars>>

(* ---------------------------------------------------------------------- *)
(* Reconciliation (user-management router)                                 *)
(* ---------------------------------------------------------------------- *)
\* the rows whose mirror row is missing
problematic_friendships(fs) ==
    LET friendship_pairs == fs
    IN {p \in friendship_pairs : <<p[2], p[1]>> \notin friendship_pairs}

\* the pass replacing every problematic row by its mirror
fix_one_way_friendships_moved(fs) ==
    (fs \ problematic_friendships(fs))
        \cup {Friendship(p[2], p[1]) : p \in problematic_friendships(fs)}

\* the pass adding the problematic row itself instead of its mirror
fix_one_way_friendships_same_direction(fs) ==
    fs \cup {Friendship(p[1], p[2]) : p \in problematic_friendships(fs)}

\* The table the pass commits: the mirror of every problematic row is added.
fix_one_way_friendships(fs) ==
    fs \cup {Friendship(p[2], p[1]) : p \in problematic_friendships(fs)}

\* The pass inside its "with db.begin()" block.  db.add only registers a
\* mirror row with the session: the INSERTs reach the database when the
\* commit that ends the block flushes them.  failed is the set of mirror
\* rows whose INSERT the database refuses; the refusal is raised by that
\* commit, outside the try/except around db.add, and the block is rolled
\* back as a whole.
fix_one_way_friendships_pass(fs, failed) ==
    IF failed = {}
    THEN [fs |-> fix_one_way_friendships(fs), ok |-> TRUE]
    ELSE [fs |-> fs, ok |-> FALSE]

\* The suggestions read runs the pass first; the rest of the handler only
\* reads.  The pass runs in a "with db.begin()" block that no handler
\* encloses: a failure of the block rolls the pass back and the exception
\* leaves the handler.  The response records the number of one-way
\* friendships the pass logged as fixed or, when an INSERT was refused, the
\* number of refused rows.
get_suggested_users(current_user) ==
    \E fault \in Faults :
        IF fault = "none"
        THEN \E failed \in SUBSET {Friendship(p[2], p[1]) :
                                      p \in problematic_friendships(friendships)} :
             LET pass == fix_one_way_friendships_pass(friendships, failed)
             IN IF pass.ok
                THEN /\ friendships' = pass.fs
                     /\ resp' = Response("suggestions", current_user,
                                         Cardinality(problematic_friendships(friendships)),
                                         "", 200)
                     /\ UNCHANGED <<requests, notifications>>
                ELSE /\ resp' = Response("suggestions", current_user,
                                         Cardinality(failed), "insert_failed", 500)
                     /\ UNCHANGED <<friendships, requests, notifications>>
        ELSE /\ resp' = Response("suggestions", current_user, 0, "", 500)
             /\ UNCHANGED <<friendships, requests, notifications>>

\* The pass of session s up to the end of its loop: db.begin() has opened
\* the block, the one query has read the committed table, and the mirror of
\* every problematic row has been added to the session.  Nothing has been
\* written to the database yet.
fix_one_way_friendships_read(s, current_user) ==
    /\ ~passes[s].open
    /\ passes' = [passes EXCEPT ![s] =
                      [open |-> TRUE, user |-> current_user,
                       added |-> {Friendship(p[2], p[1]) :
                                     p \in problematic_friendships(friendships)}]]
    /\ UNCHANGED <<social_vars, content_vars, inflight>>

\* The commit that ends the block of session s: the INSERTs of the added
\* rows are flushed.  A row that another transaction has committed since
\* the read violates the primary key: the commit raises, the block is
\* rolled back and the exception leaves the handler.
fix_one_way_friendships_commit(s) ==
    /\ passes[s].open
    /\ LET failed == passes[s].added \cap friendships
       IN IF failed = {}
          THEN /\ friendships' = friendships \cup passes[s].added
               /\ resp' = Response("suggestions", passes[s].user,
                                   Cardinality(passes[s].added), "", 200)
          ELSE /\ friendships' = friendships
               /\ resp' = Response("suggestions", passes[s].user,
                                   Cardinality(failed), "insert_failed", 500)
    /\ passes' = [passes EXCEPT ![s] = NoPass]
    /\ UNCHANGED <<requests, notifications, content_vars, inflight>>

\* get_friends selects one column of the rows that name the user on either
\* side.  The column is chosen by a Python conditional on the expression
\* Friendship.user_id == user_id, which is an SQL clause and not a
\* comparison of values: its truth value is False whatever the user, so the
\* column is always user_id.  The user's own id is dropped, and an id is
\* kept when its user exists.
get_friends(fs, user_id) ==
    {x \in {row[1] : row \in {r \in fs : r[1] = user_id \/ r[2] = user_id}} :
         x # user_id /\ get_user(x)}

\* "Method 2" of _get_all_friend_ids: the rows that name the user on either
\* side, each giving the id on its other side.
direct_friend_ids(fs, user_id) ==
    {IF f[1] = user_id THEN f[2] ELSE f[1] :
         f \in {r \in fs : r[1] = user_id \/ r[2] = user_id}}

\* GET /friends: the response records the ids of the users returned.
get_my_friends(current_user) ==
    /\ resp' = Response("friends", current_user,
                        get_friends(friendships, current_user), "", 200)
    /\ UNCHANGED <<friendships, requests, notifications>>

(* ---------------------------------------------------------------------- *)
(* Handlers served statement by statement                                  *)
(* ---------------------------------------------------------------------- *)
\* Each request is served by its own session, and every query reads the
\* table as committed at that moment.  A handler is cut where another
\* session's commit can fall between two of its statements.

\* send_friend_request up to the call of create_friend_request: the checks
\* of the router.
send_friend_request_validate(s, current_user, receiver_id) ==
    /\ inflight[s].pc = "idle"
    /\ IF ~get_user(receiver_id)
       THEN /\ resp' = Response("send", current_user, receiver_id, "", 404)
            /\ UNCHANGED inflight
       ELSE IF \/ current_user = receiver_id
               \/ check_friendship(friendships, current_user, receiver_id)
               \/ get_friend_request(requests, current_user, receiver_id) # {}
               \/ get_friend_request(requests, receiver_id, current_user) # {}
       THEN /\ resp' = Response("send", current_user, receiver_id, "", 400)
            /\ UNCHANGED inflight
       ELSE /\ inflight' = [inflight EXCEPT ![s] =
                               Call("send_validated", current_user, receiver_id, "", {})]
            /\ UNCHANGED resp
    /\ UNCHANGED <<friendships, requests, notifications, content_vars, passes>>

\* The two queries that open create_friend_request: the request of the
\* same direction, then the request of the reverse direction.
create_friend_request_lookup(s) ==
    /\ inflight[s].pc = "send_validated"
    /\ LET sender_id == inflight[s].user
           receiver_id == inflight[s].arg
       IN IF get_friend_request(requests, sender_id, receiver_id) # {}
          THEN \E existing_request \in get_friend_request(requests, sender_id, receiver_id) :
                   inflight' = [inflight EXCEPT ![s] =
                       Call("send_existing", sender_id, receiver_id, "", {existing_request})]
          ELSE IF get_friend_request(requests, receiver_id, sender_id) # {}
          THEN \E reverse_request \in get_friend_request(requests, receiver_id, sender_id) :
                   inflight' = [inflight EXCEPT ![s] =
                       Call("send_reverse", sender_id, receiver_id, "", {reverse_request})]
          ELSE inflight' = [inflight EXCEPT ![s] =
                       Call("send_insert", sender_id, receiver_id, "", {})]
    /\ UNCHANGED <<social_vars, content_vars, passes>>

\* What create_friend_request writes after its queries, by the branch they
\* selected: nothing, the acceptance of the reverse request with the two
\* friendship rows, or the INSERT of a pending request.
create_friend_request_write(fs, reqs, call, fault) ==
    IF call.pc = "send_existing"
    THEN {[fs |-> fs, reqs |-> reqs, request |-> existing_request] :
              existing_request \in call.seen}
    ELSE IF call.pc = "send_reverse"
    THEN {LET accepted == [reverse_request EXCEPT !.status = "accepted"]
              created == create_friendship(fs, call.user, call.arg, fault)
              committed == IF created.rolled_back THEN reverse_request ELSE accepted
          IN [fs |-> created.fs,
              reqs |-> {fr \in reqs : fr.id # reverse_request.id} \cup {committed},
              request |-> committed] :
              reverse_request \in call.seen}
    ELSE {LET friend_request == FriendshipRequest(id, call.user, call.arg, "pending")
          IN [fs |-> fs, reqs |-> reqs \cup {friend_request}, request |-> friend_request] :
              id \in FreshIds(RequestIds, {r.id : r \in reqs})}

\* The rest of send_friend_request: the write and commit of
\* create_friend_request, the notification and the response.
send_friend_request_commit(s) ==
    /\ inflight[s].pc \in {"send_existing", "send_reverse", "send_insert"}
    /\ \E fault \in Faults, nfault \in BOOLEAN :
       \E out \in create_friend_request_write(friendships, requests, inflight[s], fault) :
          /\ NotificationRoom(nfault)
          /\ friendships' = out.fs
          /\ requests' = out.reqs
          /\ notifications' \in create_friend_request_notification(
                 notifications, inflight[s].user, inflight[s].arg, out.request.id, nfault)
          /\ resp' = Response("send", inflight[s].user, inflight[s].arg,
                              out.request.status, 200)
    /\ inflight' = [inflight EXCEPT ![s] = NoCall]
    /\ UNCHANGED <<content_vars, passes>>

\* the foreign keys never enforced
references_post_unenforced(ps, post_id) == TRUE

\* The foreign keys comments.post_id and reactions.post_id: the database
\* accepts a row only while the post it names is stored.
references_post(ps, post_id) == \E p \in ps : p.id = post_id

\* The rows an open delete_post has deleted and not yet committed: they are
\* locked, and a statement of another session that updates them or inserts
\* a row referencing them waits for the end of that transaction.
locked_rows(s) ==
    UNION {inflight[t].seen : t \in {x \in Sessions : x # s /\ inflight[x].pc = "delete_begun"}}

\* create_or_update_post_reaction up to the write: the router validates the
\* type and the post, and create_or_update_reaction looks for the
\* reaction of the user on the post.
create_or_update_post_reaction_read(s, current_user, post_id, reaction_type) ==
    /\ inflight[s].pc = "idle"
    /\ IF reaction_type \notin allowed_types
       THEN /\ resp' = Response("react", current_user, post_id, reaction_type, 422)
            /\ UNCHANGED inflight
       ELSE IF get_post(posts, post_id) = {}
       THEN /\ resp' = Response("react", current_user, post_id, reaction_type, 404)
            /\ UNCHANGED inflight
       ELSE IF get_reaction(reactions, current_user, post_id) # {}
       THEN /\ \E existing_reaction \in get_reaction(reactions, current_user, post_id) :
                   inflight' = [inflight EXCEPT ![s] =
                       Call("react_update", current_user, post_id, reaction_type,
                            {<<"reaction", existing_reaction.id>>})]
            /\ UNCHANGED resp
       ELSE /\ inflight' = [inflight EXCEPT ![s] =
                       Call("react_insert", current_user, post_id, reaction_type, {})]
            /\ UNCHANGED resp
    /\ feed' = NoFeed
    /\ UNCHANGED <<posts, comments, reactions, notifications, friendships, requests, passes>>

\* The write and commit of create_or_update_reaction.  The UPDATE of a row
\* that is no longer stored matches nothing and the INSERT of a row whose
\* post is no longer stored violates the foreign key: either raises and the
\* request is answered 500.
create_or_update_post_reaction_commit(s) ==
    /\ inflight[s].pc \in {"react_update", "react_insert"}
    /\ inflight[s].seen \cap locked_rows(s) = {}
    /\ LET call == inflight[s]
       IN IF call.pc = "react_update"
          THEN IF \A r \in reactions : <<"reaction", r.id>> \notin call.seen
               THEN /\ resp' = Response("react", call.user, call.arg, call.input, 500)
                    /\ UNCHANGED <<reactions, notifications>>
               ELSE /\ reactions' =
                           {IF <<"reaction", r.id>> \in call.seen
                            THEN [r EXCEPT !.reaction_type = call.input]
                            ELSE r : r \in reactions}
                    /\ resp' = Response("react", call.user, call.arg, call.input, 200)
                    /\ UNCHANGED notifications
          ELSE IF ~references_post(posts, call.arg)
               THEN /\ resp' = Response("react", call.user, call.arg, call.input, 500)
                    /\ UNCHANGED <<reactions, notifications>>
               ELSE \E nfault \in BOOLEAN :
                    \E id \in FreshIds(ReactionIds, {r.id : r \in reactions}) :
                       /\ NotificationRoom(nfault)
                       /\ reactions' = reactions \cup
                              {Reaction(id, call.user, call.arg, call.input)}
                       /\ notifications' \in create_post_like_notification(
                              notifications, posts, call.arg, call.user, nfault)
                       /\ resp' = Response("react", call.user, call.arg, call.input, 200)
    /\ inflight' = [inflight EXCEPT ![s] = NoCall]
    /\ feed' = NoFeed
    /\ UNCHANGED <<posts, comments, friendships, requests, passes>>

\* create_new_comment up to the call of create_comment: the post and the
\* parent are validated.
create_new_comment_validate(s, current_user, post_id, parent_id, content) ==
    /\ inflight[s].pc = "idle"
    /\ IF get_post(posts, post_id) = {}
       THEN /\ resp' = Response("create_comment", current_user, NoComment, "", 404)
            /\ UNCHANGED inflight
       ELSE IF parent_id # NoComment /\ get_comment(comments, parent_id) = {}
       THEN /\ resp' = Response("create_comment", current_user, NoComment, "", 404)
            /\ UNCHANGED inflight
       ELSE IF /\ parent_id # NoComment
               /\ \E parent \in get_comment(comments, parent_id) : parent.post_id # post_id
       THEN /\ resp' = Response("create_comment", current_user, NoComment, "", 400)
            /\ UNCHANGED inflight
       ELSE /\ inflight' = [inflight EXCEPT ![s] =
                   Call("comment_validated", current_user, post_id, content,
                        IF parent_id = NoComment THEN {} ELSE {<<"comment", parent_id>>})]
            /\ UNCHANGED resp
    /\ feed' = NoFeed
    /\ UNCHANGED <<posts, comments, reactions, notifications, friendships, requests, passes>>

\* The INSERT and commit of create_comment, the notification and the
\* response.  The INSERT of a comment whose post or parent is no longer
\* stored violates a foreign key: the router answers 500.
create_new_comment_commit(s) ==
    /\ inflight[s].pc = "comment_validated"
    /\ inflight[s].seen \cap locked_rows(s) = {}
    /\ LET call == inflight[s]
           parent_ids == {row[2] : row \in call.seen}
       IN IF \/ ~references_post(posts, call.arg)
             \/ \E parent_id \in parent_ids : get_comment(comments, parent_id) = {}
          THEN /\ resp' = Response("create_comment", call.user, NoComment, "", 500)
               /\ UNCHANGED <<comments, notifications>>
          ELSE \E nfault \in BOOLEAN :
               \E id \in FreshIds(CommentIds, {c.id : c \in comments}) :
               \E parent_id \in IF parent_ids = {} THEN {NoComment} ELSE parent_ids :
                  /\ NotificationRoom(nfault)
                  /\ comments' = comments \cup
                         {Comment(id, call.user, call.arg, parent_id, call.input)}
                  /\ notifications' \in create_post_comment_notification(
                         notifications, posts, call.arg, id, call.user, nfault)
                  /\ resp' = Response("create_comment", call.user, id, "", 200)
    /\ inflight' = [inflight EXCEPT ![s] = NoCall]
    /\ feed' = NoFeed
    /\ UNCHANGED <<posts, reactions, friendships, requests, passes>>

\* delete_post_by_id up to the commit: the checks of the router and the two
\* bulk DELETEs of delete_post, which remove the reactions and comments of
\* the post stored at that moment inside the open transaction.
delete_post_begin(s, current_user, post_id) ==
    /\ inflight[s].pc = "idle"
    /\ IF get_post(posts, post_id) = {}
       THEN /\ resp' = Response("delete_post", current_user, post_id, "", 404)
            /\ UNCHANGED inflight
       ELSE \E post \in get_post(posts, post_id) :
            IF post.author_id # current_user
            THEN /\ resp' = Response("delete_post", current_user, post_id, "", 403)
                 /\ UNCHANGED inflight
            ELSE LET deleted == {<<"reaction", r.id>> : r \in {x \in reactions : x.post_id = post_id}}
                                \cup {<<"comment", c.id>> : c \in {x \in comments : x.post_id = post_id}}
                 IN /\ deleted \cap locked_rows(s) = {}
                    /\ inflight' = [inflight EXCEPT ![s] =
                           Call("delete_begun", current_user, post_id, "", deleted)]
                    /\ UNCHANGED resp
    /\ feed' = NoFeed
    /\ UNCHANGED <<posts, comments, reactions, notifications, friendships, requests, passes>>

\* The DELETE of the post and the commit that ends delete_post.  A comment
\* or reaction of the post committed since the bulk DELETEs still
\* references it, and a post another session has deleted is matched by no
\* row: the commit raises, the transaction is rolled back and the request
\* is answered 500.
delete_post_commit(s) ==
    /\ inflight[s].pc = "delete_begun"
    /\ LET call == inflight[s]
           kept_comments == {c \in comments : <<"comment", c.id>> \notin call.seen}
           kept_reactions == {r \in reactions : <<"reaction", r.id>> \notin call.seen}
       IN IF \/ get_post(posts, call.arg) = {}
             \/ \E c \in kept_comments : c.post_id = call.arg
             \/ \E r \in kept_reactions : r.post_id = call.arg
          THEN /\ resp' = Response("delete_post", call.user, call.arg, "", 500)
               /\ UNCHANGED <<posts, comments, reactions>>
          ELSE /\ posts' = {p \in posts : p.id # call.arg}
               /\ comments' = kept_comments
               /\ reactions' = kept_reactions
               /\ resp' = Response("delete_post", call.user, call.arg, "", 200)
    /\ inflight' = [inflight EXCEPT ![s] = NoCall]
    /\ feed' = NoFeed
    /\ UNCHANGED <<notifications, friendships, requests, passes>>

(* ---------------------------------------------------------------------- *)
(* Specifications                                                          *)
(* ---------------------------------------------------------------------- *)
\* The database after construction: every table empty.
Init ==
    /\ friendships = {}
    /\ requests = {}
    /\ notifications = {}
    /\ resp = Response("none", NoUser, 0, "", 0)
    /\ posts = {}
    /\ comments = {}
    /\ reactions = {}
    /\ feed = NoFeed
    /\ passes = [s \in Sessions |-> NoPass]
    /\ inflight = [s \in Sessions |-> NoCall]

\* The friendship handlers touch neither the posts tables nor another
\* session's open pass.
Next ==
    \/ /\ \E u \in Users, r \in UserIds : send_friend_request(u, r)
       /\ UNCHANGED <<content_vars, passes, inflight>>
    \/ /\ \E u \in Users, id \in RequestIds \cup {NoRequest}, status \in allowed_statuses :
              respond_to_friend_request(u, id, status)
       /\ UNCHANGED <<content_vars, passes, inflight>>
    \/ /\ \E u \in Users, id \in RequestIds \cup {NoRequest} : cancel_friend_request(u, id)
       /\ UNCHANGED <<content_vars, passes, inflight>>
    \/ /\ \E u \in Users, f \in UserIds : remove_friend(u, f)
       /\ UNCHANGED <<content_vars, passes, inflight>>
    \/ /\ \E u \in Users : get_suggested_users(u)
       /\ UNCHANGED <<content_vars, passes, inflight>>

Spec == Init /\ [][Next]_vars

\* The rows the friendships table admits: the primary key is the ordered
\* pair and the check constraint forbids user_id = friend_id.
FriendshipRows == {p \in Users \X Users : p[1] # p[2]}

\* The reconciliation pass is specified for any friendship table: the
\* handlers run from every table the schema admits.
InitRepair ==
    /\ friendships \in SUBSET FriendshipRows
    /\ requests = {}
    /\ notifications = {}
    /\ resp = Response("none", NoUser, 0, "", 0)
    /\ posts = {}
    /\ comments = {}
    /\ reactions = {}
    /\ feed = NoFeed
    /\ passes = [s \in Sessions |-> NoPass]
    /\ inflight = [s \in Sessions |-> NoCall]

SpecRepair == InitRepair /\ [][Next]_vars

\* Reconciliation passes of several sessions interleaved with the
\* friendship handlers, each of which commits in one step.
NextConcurrent ==
    \/ /\ \E s \in Sessions, u \in Users : fix_one_way_friendships_read(s, u)
    \/ /\ \E s \in Sessions : fix_one_way_friendships_commit(s)
    \/ /\ \E u \in Users, r \in Users : send_friend_request(u, r)
       /\ UNCHANGED <<content_vars, passes, inflight>>
    \/ /\ \E u \in Users, id \in RequestIds :
              respond_to_friend_request(u, id, "accepted")
       /\ UNCHANGED <<content_vars, passes, inflight>>
    \/ /\ \E u \in Users, f \in Users : remove_friend(u, f)
       /\ UNCHANGED <<content_vars, passes, inflight>>

SpecConcurrent == InitRepair /\ [][NextConcurrent]_vars

\* The friendship tables the friendship handlers can leave: both rows of
\* a pair or none.
SymmetricTables == {fs \in SUBSET FriendshipRows : \A p \in fs : <<p[2], p[1]>> \in fs}

\* The home feed over posts, comments and reactions written through their
\* routers, for a fixed friendship table.
InitFeed ==
    /\ friendships \in SymmetricTables
    /\ requests = {}
    /\ notifications = {}
    /\ resp = Response("none", NoUser, 0, "", 0)
    /\ posts = {}
    /\ comments = {}
    /\ reactions = {}
    /\ feed = NoFeed
    /\ passes = [s \in Sessions |-> NoPass]
    /\ inflight = [s \in Sessions |-> NoCall]

NextFeed ==
    \/ \E u \in Users : create_new_post(u, "a")
    \/ /\ CommentRoom
       /\ \E u \in Users, id \in PostIds : create_new_comment(u, id, NoComment, "a")
    \/ \E u \in Users, id \in PostIds : create_or_update_post_reaction(u, id, "like")
    \/ \E u \in Users, skip \in 0..MaxSkip, limit \in 1..MaxLimit :
           read_home_feed(u, skip, limit)

SpecFeed == InitFeed /\ [][NextFeed]_vars

\* The feed is specified for any friendship table.
InitFeedAnyTable ==
    /\ friendships \in SUBSET FriendshipRows
    /\ requests = {}
    /\ notifications = {}
    /\ resp = Response("none", NoUser, 0, "", 0)
    /\ posts = {}
    /\ comments = {}
    /\ reactions = {}
    /\ feed = NoFeed
    /\ passes = [s \in Sessions |-> NoPass]
    /\ inflight = [s \in Sessions |-> NoCall]

SpecFeedAnyTable == InitFeedAnyTable /\ [][NextFeed]_vars

\* the reaction types a client submits
SubmittedTypes == {"like", "love"}

\* The reactions router over posts created and deleted through the posts
\* router, from the empty database.
NextReactions ==
    \/ \E u \in Users : create_new_post(u, "a")
    \/ \E u \in Users, id \in PostIds : delete_post_by_id(u, id)
    \/ \E u \in Users, id \in PostIds, reaction_type \in SubmittedTypes :
           create_or_update_post_reaction(u, id, reaction_type)
    \/ \E u \in Users, id \in PostIds : delete_post_reaction(u, id)

SpecReactions == Init /\ [][NextReactions]_vars

\* Deleting posts that carry comments, replies and reactions, from the
\* empty database.
NextDeletePost ==
    \/ \E u \in Users : create_new_post(u, "a")
    \/ \E u \in Users, id \in PostIds : read_post_by_id(u, id)
    \/ \E u \in Users, id \in PostIds : delete_post_by_id(u, id)
    \/ /\ CommentRoom
       /\ \E u \in Users, id \in PostIds, parent_id \in CommentIds \cup {NoComment} :
              create_new_comment(u, id, parent_id, "a")
    \/ \E u \in Users, id \in PostIds : create_or_update_post_reaction(u, id, "like")

SpecDeletePost == Init /\ [][NextDeletePost]_vars

\* The ownership checks are specified from populated databases: every
\* post, comment and reaction row is present, comment j and reaction j
\* belong to post j, and the authors range over the users.  Notification
\* rows are emitted best-effort, so the notifications table can be empty.
InitOwnership ==
    /\ friendships = {}
    /\ requests = {}
    /\ notifications = {}
    /\ resp = Response("none", NoUser, 0, "", 0)
    /\ \E post_author \in [PostIds -> Users], comment_author \in [CommentIds -> Users],
          reaction_user \in [ReactionIds -> Users] :
           /\ posts = {Post(i, post_author[i], "a", i) : i \in PostIds}
           /\ comments = {Comment(j, comment_author[j], ((j - 1) % MaxPosts) + 1,
                                  NoComment, "a") : j \in CommentIds}
           /\ reactions = {Reaction(k, reaction_user[k], ((k - 1) % MaxPosts) + 1,
                                    "like") : k \in ReactionIds}
    /\ feed = NoFeed
    /\ passes = [s \in Sessions |-> NoPass]
    /\ inflight = [s \in Sessions |-> NoCall]

NextOwnership ==
    \/ \E u \in Users, id \in PostIds : update_post_by_id(u, id, "b")
    \/ \E u \in Users, id \in PostIds : delete_post_by_id(u, id)
    \/ \E u \in Users, id \in PostIds, comment_id \in CommentIds :
           update_comment_by_id(u, id, comment_id, "b")
    \/ \E u \in Users, id \in PostIds, comment_id \in CommentIds :
           delete_comment_by_id(u, id, comment_id)

SpecOwnership == InitOwnership /\ [][NextOwnership]_vars

\* The comments router over posts created and deleted through the posts
\* router, from the empty database: comments, replies and their deletes.
NextComments ==
    \/ \E u \in Users : create_new_post(u, "a")
    \/ \E u \in Users, id \in PostIds : delete_post_by_id(u, id)
    \/ \E u \in Users, id \in PostIds, parent_id \in CommentIds \cup {NoComment} :
           create_new_comment(u, id, parent_id, "a")
    \/ \E u \in Users, id \in PostIds, comment_id \in CommentIds :
           delete_comment_by_id(u, id, comment_id)

SpecComments == Init /\ [][NextComments]_vars

\* Threads of comments: posts and comments created through their routers
\* until the comment ids are used up.
NextThreads ==
    \/ \E u \in Users : create_new_post(u, "a")
    \/ \E u \in Users, id \in PostIds, parent_id \in CommentIds \cup {NoComment} :
           create_new_comment(u, id, parent_id, "a")

SpecThreads == Init /\ [][NextThreads]_vars

\* The four operations that emit notifications, over posts created through
\* the posts router, from the empty database.
NextNotifying ==
    \/ /\ \E u \in Users, r \in UserIds : send_friend_request(u, r)
       /\ UNCHANGED <<content_vars, passes, inflight>>
    \/ /\ \E u \in Users, id \in RequestIds : respond_to_friend_request(u, id, "accepted")
       /\ UNCHANGED <<content_vars, passes, inflight>>
    \/ \E u \in Users : create_new_post(u, "a")
    \/ /\ CommentRoom
       /\ \E u \in Users, id \in PostIds : create_new_comment(u, id, NoComment, "a")
    \/ \E u \in Users, id \in PostIds : create_or_update_post_reaction(u, id, "like")

SpecNotifying == Init /\ [][NextNotifying]_vars

\* Friend requests sent by several sessions at once, from the empty
\* database.
NextSendRace ==
    \/ \E s \in Sessions, u \in Users, r \in UserIds : send_friend_request_validate(s, u, r)
    \/ \E s \in Sessions : create_friend_request_lookup(s)
    \/ \E s \in Sessions : send_friend_request_commit(s)

SpecSendRace == Init /\ [][NextSendRace]_vars

\* Reactions submitted by several sessions at once to posts created
\* through the posts router, from the empty database.
NextReactionRace ==
    \/ \E u \in Users : create_new_post(u, "a")
    \/ \E s \in Sessions, u \in Users, id \in PostIds, reaction_type \in SubmittedTypes :
           create_or_update_post_reaction_read(s, u, id, reaction_type)
    \/ \E s \in Sessions : create_or_update_post_reaction_commit(s)

SpecReactionRace == Init /\ [][NextReactionRace]_vars

\* The three readers of the friendships table, over any table the schema
\* admits: the friends list, the home feed and the suggestions read.
NextFriendSets ==
    \/ /\ \E u \in Users : get_my_friends(u)
       /\ UNCHANGED <<content_vars, passes, inflight>>
    \/ \E u \in Users, skip \in 0..MaxSkip, limit \in 1..MaxLimit :
           read_home_feed(u, skip, limit)
    \/ /\ \E u \in Users : get_suggested_users(u)
       /\ UNCHANGED <<content_vars, passes, inflight>>

SpecFriendSets == InitRepair /\ [][NextFriendSets]_vars

\* Posts deleted while another session comments on them and reacts to
\* them, from the empty database.  One session serves the deletes and the
\* others serve the comment and reaction requests; the posts table is held
\* to MaxRacePosts rows.
Deleter == 1

NextDeleteRace ==
    \/ /\ Cardinality(posts) < MaxRacePosts
       /\ \E u \in Users : create_new_post(u, "a")
    \/ \E u \in Users, id \in PostIds : delete_post_begin(Deleter, u, id)
    \/ delete_post_commit(Deleter)
    \/ /\ CommentRoom
       /\ \E s \in Sessions \ {Deleter}, u \in Users, id \in PostIds,
             parent_id \in CommentIds \cup {NoComment} :
              create_new_comment_validate(s, u, id, parent_id, "a")
    \/ \E s \in Sessions \ {Deleter} : create_new_comment_commit(s)
    \/ \E s \in Sessions \ {Deleter}, u \in Users, id \in PostIds :
           create_or_update_post_reaction_read(s, u, id, "like")
    \/ \E s \in Sessions \ {Deleter} : create_or_update_post_reaction_commit(s)

SpecDeleteRace == Init /\ [][NextDeleteRace]_vars

\* Friendships made and removed between users who post and read their
\* home feed, from the empty database.
NextFeedFriends ==
    \/ /\ \E u \in Users, r \in Users : send_friend_request(u, r)
       /\ UNCHANGED <<content_vars, passes, inflight>>
    \/ /\ \E u \in Users, id \in RequestIds : respond_to_friend_request(u, id, "accepted")
       /\ UNCHANGED <<content_vars, passes, inflight>>
    \/ /\ \E u \in Users, f \in Users : remove_friend(u, f)
       /\ UNCHANGED <<content_vars, passes, inflight>>
    \/ \E u \in Users : create_new_post(u, "a")
    \/ \E u \in Users : read_home_feed(u, 0, MaxLimit)

SpecFeedFriends == Init /\ [][NextFeedFriends]_vars

(* ---------------------------------------------------------------------- *)
(* Properties                                                              *)
(* ---------------------------------------------------------------------- *)
\* the friendship rows between a and b, in either direction
RowsBetween(fs, a, b) == fs \cap {<<a, b>>, <<b, a>>}

BothRows(fs, a, b) == <<a, b>> \in fs /\ <<b, a>> \in fs

\* the request rows between a and b, in either direction
RequestsBetween(reqs, a, b) ==
    {fr \in reqs : \/ (fr.sender_id = a /\ fr.receiver_id = b)
                   \/ (fr.sender_id = b /\ fr.receiver_id = a)}

PendingFrom(reqs, a, b) ==
    {fr \in reqs : fr.sender_id = a /\ fr.receiver_id = b /\ fr.status = "pending"}

\* C1: in every committed state the row (A,B) is in the friendships table
\* if and only if the row (B,A) is: a reader sees zero or two rows for a
\* pair, never exactly one.
FriendshipSymmetry ==
    \A a \in Users, b \in Users : (<<a, b>> \in friendships) <=> (<<b, a>> \in friendships)

\* C1 witness: an acceptance has materialized a friendship.
FriendshipSymmetryWitness ==
    /\ resp.op = "respond" /\ resp.code = 200 /\ resp.status = "accepted"
    /\ friendships # {}

\* C2: after the receiver's accepting response returns, both friendship
\* rows between sender and receiver exist and exactly one request row
\* exists between them, with status accepted.
AcceptMaterializesFriendship ==
    (resp.op = "respond" /\ resp.code = 200 /\ resp.status = "accepted") =>
        \E fr \in requests :
            /\ fr.id = resp.arg
            /\ fr.receiver_id = resp.user
            /\ fr.status = "accepted"
            /\ BothRows(friendships, fr.sender_id, fr.receiver_id)
            /\ RequestsBetween(requests, fr.sender_id, fr.receiver_id) = {fr}

\* C3: acceptance is all-or-nothing: no state holds an accepted request
\* between a pair that has fewer than two friendship rows.
AcceptedImpliesFriendship ==
    \A fr \in requests :
        fr.status = "accepted" => BothRows(friendships, fr.sender_id, fr.receiver_id)

\* C4: when B has a pending request to A and A sends a request to B, no
\* second request row is created, both friendship rows exist afterwards and
\* no pending request remains between A and B.
MutualRequestMerge ==
    [][(resp'.op = "send" /\ PendingFrom(requests, resp'.arg, resp'.user) # {}) =>
           /\ Cardinality(requests') = Cardinality(requests)
           /\ BothRows(friendships', resp'.user, resp'.arg)
           /\ \A fr \in RequestsBetween(requests', resp'.user, resp'.arg) :
                  fr.status # "pending"]_vars

\* C5: a send to oneself, to a friend, or repeating a pending request to
\* the same receiver is answered with an error and leaves the request,
\* friendship and notification tables unchanged.
SendRequestRejected ==
    [][(/\ resp'.op = "send"
        /\ \/ resp'.user = resp'.arg
           \/ RowsBetween(friendships, resp'.user, resp'.arg) # {}
           \/ PendingFrom(requests, resp'.user, resp'.arg) # {}) =>
           /\ resp'.code = 400
           /\ requests' = requests
           /\ friendships' = friendships
           /\ notifications' = notifications]_vars

\* C5 witness: a repeated send was refused while the first is pending.
SendRequestRejectedWitness ==
    /\ resp.op = "send" /\ resp.code = 400
    /\ PendingFrom(requests, resp.user, resp.arg) # {}

\* C6: a request's status only ever moves from pending to accepted or
\* rejected; a response to a request that is not pending is an error and
\* changes neither the request table nor the friendship table.
StatusWriteOnce ==
    [][/\ \A fr \in requests, fr2 \in requests' :
              fr2.id = fr.id =>
                  /\ fr2.sender_id = fr.sender_id
                  /\ fr2.receiver_id = fr.receiver_id
                  /\ \/ fr2.status = fr.status
                     \/ (fr.status = "pending" /\ fr2.status \in {"accepted", "rejected"})
       /\ (/\ resp'.op = "respond"
           /\ \E fr \in requests : fr.id = resp'.arg /\ fr.status # "pending") =>
              /\ resp'.code \in {400, 403}
              /\ requests' = requests
              /\ friendships' = friendships]_vars

\* C6 witness: the receiver responded to a request already settled.
StatusWriteOnceWitness ==
    /\ resp.op = "respond" /\ resp.code = 400
    /\ \E fr \in requests : fr.id = resp.arg /\ fr.status # "pending"

\* C7: after remove-friend for two friends returns, no friendship row and
\* no request row of any status remains between them.
RemoveFriendRemovesAll ==
    [][(resp'.op = "remove" /\ RowsBetween(friendships, resp'.user, resp'.arg) # {}) =>
           /\ RowsBetween(friendships', resp'.user, resp'.arg) = {}
           /\ RequestsBetween(requests', resp'.user, resp'.arg) = {}]_vars

\* C8: remove-friend reports success only when both rows and all requests
\* between the pair are gone, and a failed removal is answered with an
\* error with both tables left as they were.
RemoveFriendFailureSurfaced ==
    [][resp'.op = "remove" =>
           IF resp'.code = 200
           THEN /\ RowsBetween(friendships', resp'.user, resp'.arg) = {}
                /\ RequestsBetween(requests', resp'.user, resp'.arg) = {}
           ELSE friendships' = friendships /\ requests' = requests]_vars

\* C9: at most one pending request row per ordered (sender, receiver) pair.
OnePendingPerOrderedPair ==
    \A a \in Users, b \in Users : Cardinality(PendingFrom(requests, a, b)) <= 1

\* C9 witness: a send has created a pending request.
OnePendingPerOrderedPairWitness ==
    /\ resp.op = "send" /\ resp.code = 200
    /\ PendingFrom(requests, resp.user, resp.arg) # {}

\* C10: a completed reconciliation pass leaves the friendships table
\* symmetric, keeps every row it found, and adds only mirrors of rows it
\* found.
RepairRestoresSymmetry ==
    [][(resp'.op = "suggestions" /\ resp'.code = 200) =>
           /\ \A p \in friendships : p \in friendships' /\ <<p[2], p[1]>> \in friendships'
           /\ \A p \in friendships' \ friendships : <<p[2], p[1]>> \in friendships
           /\ requests' = requests]_vars

\* C10 witness: the pass found one-way rows and committed their mirrors.
RepairRestoresSymmetryWitness ==
    /\ resp.op = "suggestions" /\ resp.code = 200 /\ resp.arg > 0
    /\ friendships # {}

\* C11: the reconciliation pass is idempotent: a completed pass that runs
\* directly after a completed pass leaves the friendships table exactly as
\* the first pass left it.
RepairIdempotent ==
    [][(/\ resp.op = "suggestions" /\ resp.code = 200
        /\ resp'.op = "suggestions" /\ resp'.code = 200) =>
           friendships' = friendships]_vars

\* C11 witness: a completed pass found a non-empty table with nothing left
\* to mirror.
RepairIdempotentWitness ==
    /\ resp.op = "suggestions" /\ resp.code = 200 /\ resp.arg = 0
    /\ friendships # {}
    /\ \A p \in friendships : <<p[2], p[1]>> \in friendships

\* C13: when the insert of the mirror row of one asymmetric pair fails
\* during the reconciliation pass, that pair is skipped: the mirrors of all
\* other asymmetric pairs are committed and the read that ran the pass is
\* answered normally.
RepairSkipsFailedInsert ==
    [][(resp'.op = "suggestions" /\ resp'.status = "insert_failed") =>
           /\ resp'.code = 200
           /\ friendships \subseteq friendships'
           /\ Cardinality(friendships' \ friendships) =
                  Cardinality({p \in friendships : <<p[2], p[1]>> \notin friendships})
                      - resp'.arg]_vars

\* C12: the reconciliation pass is safe to run concurrently with
\* remove-friend, an accepting response and another pass: no pass fails
\* because of the interleaving, a pass adds no row between a pair whose
\* rows a removal has deleted meanwhile, and once no pass is open the
\* friendships table is symmetric.
ConcurrentRepairSafe ==
    [][\A s \in Sessions :
           (passes[s].open /\ ~passes'[s].open) =>
               /\ resp'.code = 200
               /\ \A p \in friendships' \ friendships : <<p[2], p[1]>> \in friendships
               /\ (\A t \in Sessions : ~passes'[t].open) =>
                      \A p \in friendships' : <<p[2], p[1]>> \in friendships']_vars

\* the posts a feed page may show to user u: written by u or by a user
\* with a friendship row to or from u
VisiblePosts(u) ==
    {p \in posts : p.author_id = u \/ RowsBetween(friendships, u, p.author_id) # {}}

FeedFriendIdsBothDirections ==
    feed.user # NoUser =>
        feed.friend_ids = {x \in Users \ {feed.user} :
                              RowsBetween(friendships, feed.user, x) # {}}

\* C16: on every feed item comment_count is the number of comment rows of
\* the post and reaction_count the number of its reaction rows.
FeedItemCounts ==
    \A i \in 1..Len(feed.items) :
        /\ feed.items[i].comment_count =
               Cardinality({c \in comments : c.post_id = feed.items[i].post.id})
        /\ feed.items[i].reaction_count =
               Cardinality({r \in reactions : r.post_id = feed.items[i].post.id})

\* C17: has_more is true exactly when total exceeds skip + limit, and a
\* page requested at or beyond total is empty with has_more false.
FeedPagination ==
    feed.user # NoUser =>
        /\ feed.has_more <=> (feed.total > feed.skip + feed.limit)
        /\ feed.skip >= feed.total => (feed.items = <<>> /\ ~feed.has_more)

\* C17 witness: a first page of one item with a second post still to come.
FeedPaginationWitness ==
    /\ feed.user # NoUser /\ feed.has_more
    /\ feed.skip = 0 /\ feed.limit = 1 /\ feed.total = 2

\* the reaction rows of user u on post p
ReactionsOf(rs, u, p) == {r \in rs : r.user_id = u /\ r.post_id = p}

\* C18: after every reaction handler there is at most one reaction row per
\* (user, post) pair; a reaction submitted while the user's row for the
\* post exists adds no row, and after a successful submission the pair's
\* one row carries the submitted type.
OneReactionPerUserPost ==
    [][/\ \A u \in Users, p \in PostIds : Cardinality(ReactionsOf(reactions', u, p)) <= 1
       /\ (resp'.op = "react" /\ resp'.code = 200) =>
              /\ \E r \in ReactionsOf(reactions', resp'.user, resp'.arg) :
                     r.reaction_type = resp'.status
              /\ ReactionsOf(reactions, resp'.user, resp'.arg) # {} =>
                     Cardinality(reactions') = Cardinality(reactions)]_vars

\* C18 witness: the user's one row carries the second type submitted while
\* another user's row for the same post stands.
OneReactionPerUserPostWitness ==
    /\ resp.op = "react" /\ resp.code = 200 /\ resp.status = "love"
    /\ Cardinality(ReactionsOf(reactions, resp.user, resp.arg)) = 1
    /\ Cardinality({r \in reactions : r.post_id = resp.arg}) = 2

\* C19: a successful delete of post P leaves no comment and no reaction of
\* P and not P itself, and leaves every other post with its comments and
\* reactions as they were; no committed state holds a comment or reaction
\* of a missing post; a fetch of P directly afterwards is answered 404.
DeletePostCascades ==
    [][/\ (resp'.op = "delete_post" /\ resp'.code = 200) =>
              /\ posts' = {p \in posts : p.id # resp'.arg}
              /\ posts' # posts
              /\ comments' = {c \in comments : c.post_id # resp'.arg}
              /\ reactions' = {r \in reactions : r.post_id # resp'.arg}
       /\ \A c \in comments' : \E p \in posts' : p.id = c.post_id
       /\ \A r \in reactions' : \E p \in posts' : p.id = r.post_id
       /\ (/\ resp.op = "delete_post" /\ resp.code = 200
           /\ resp'.op = "read_post" /\ resp'.arg = resp.arg) => resp'.code = 404]_vars

\* C19 witness: a post was deleted while another post keeps its comment
\* and its reaction.
DeletePostCascadesWitness ==
    /\ resp.op = "delete_post" /\ resp.code = 200
    /\ posts # {} /\ comments # {} /\ reactions # {}

Replies(cs) == {c \in cs : c.parent_id # NoComment}

\* the parent of a reply is stored and belongs to the post of the reply
ParentStored(cs, c) == \E parent \in cs : parent.id = c.parent_id /\ parent.post_id = c.post_id

\* C21: in every state reached by creating and deleting comments (and
\* posts), every reply references a stored comment of the same post; a
\* reply is inserted only under a parent that was stored with the same
\* post, a request answered with an error inserts no comment, and a
\* request answered 200 inserted the comment it names.
ReplyParentIntegrity ==
    /\ [](\A c \in Replies(comments) : ParentStored(comments, c))
    /\ [][/\ \A c \in Replies(comments' \ comments) : ParentStored(comments, c)
          /\ (resp'.op = "create_comment" /\ resp'.code # 200) => comments' = comments
          /\ (resp'.op = "create_comment" /\ resp'.code = 200)
                 => \E c \in comments' \ comments : c.id = resp'.arg]_vars

\* a reply is stored and a reply under the wrong post has just been refused
ReplyParentIntegrityWitness ==
    /\ Replies(comments) # {}
    /\ resp.op = "create_comment"
    /\ resp.code = 400

\* C22: replies are one level deep: no stored comment has a parent that is
\* itself a reply, in any state reached through the comments router.
RepliesOneLevel ==
    \A c \in Replies(comments) :
        \A parent \in comments : parent.id = c.parent_id => parent.parent_id = NoComment

\* C23: no notification has its actor as its recipient, in any state
\* reached by creating reactions and comments and by sending and accepting
\* friend requests.
NoSelfNotification == \A n \in notifications : n.actor_id # n.user_id

\* a user has just reacted to their own post
NoSelfNotificationWitness ==
    /\ resp.op = "react"
    /\ resp.code = 200
    /\ \E post \in posts : post.id = resp.arg /\ post.author_id = resp.user

SendAfterRejection ==
    [][(/\ resp'.op = "send"
        /\ resp'.user # resp'.arg
        /\ \E fr \in RequestsBetween(requests, resp'.user, resp'.arg) :
               fr.status = "rejected"
        /\ \A fr \in RequestsBetween(requests, resp'.user, resp'.arg) :
               fr.status # "pending"
        /\ RowsBetween(friendships, resp'.user, resp'.arg) = {}) =>
           /\ resp'.code = 200
           /\ PendingFrom(requests', resp'.user, resp'.arg) # {}]_vars

\* C25: when A sends a request to B while B sends one to A, in no state are
\* there pending requests in both directions between them; and once both
\* sends have been answered 200 and no send is in flight, the two are
\* friends.
ConcurrentMutualSend ==
    \A a \in Users, b \in Users :
        /\ ~(PendingFrom(requests, a, b) # {} /\ PendingFrom(requests, b, a) # {})
        /\ (/\ \A s \in Sessions : inflight[s].pc = "idle"
            /\ \E fr \in requests : fr.sender_id = a /\ fr.receiver_id = b
            /\ \E fr \in requests : fr.sender_id = b /\ fr.receiver_id = a)
           => BothRows(friendships, a, b)

\* C27: however the statements of concurrent reaction requests interleave,
\* the reactions table holds at most one row per user and post.
ConcurrentReactionsOneRow ==
    \A u \in Users, id \in PostIds : Cardinality(ReactionsOf(reactions, u, id)) <= 1

\* C28: for every state of the friendships table and every user, the
\* friends list, the friend ids of the home feed and the direct query over
\* both directions give the same set of users.
FriendSetsAgree ==
    \A u \in Users :
        /\ get_friends(friendships, u) = get_friend_ids(friendships, u)
        /\ get_friend_ids(friendships, u) = direct_friend_ids(friendships, u)

\* C29: every stored comment and every stored reaction names a stored
\* post, in every committed state, however the statements of delete_post
\* interleave with those of comment and reaction requests on the post.
NoOrphanedRows ==
    /\ \A c \in comments : \E p \in posts : p.id = c.post_id
    /\ \A r \in reactions : \E p \in posts : p.id = r.post_id

\* a reaction validated while its post was stored has been refused because
\* the post was deleted before its INSERT
NoOrphanedRowsWitness ==
    /\ resp.op = "react"
    /\ resp.code = 500
    /\ get_post(posts, resp.arg) = {}

\* the first page of u's home feed over the given tables, long enough for
\* every post, shows every post of x
FeedShows(fs, ps, cs, rs, u, x) ==
    \A page \in get_home_feed(fs, ps, cs, rs, u, 0, MaxPosts) :
        \A p \in ps : p.author_id = x =>
            \E i \in 1..Len(page.items) : page.items[i].post = p

\* that page shows no post of x
FeedHides(fs, ps, cs, rs, u, x) ==
    \A page \in get_home_feed(fs, ps, cs, rs, u, 0, MaxPosts) :
        \A i \in 1..Len(page.items) : page.items[i].author # x

\* C30: in the state an accepted response leaves, the home feed of each of
\* the two users shows the posts of the other; in the state a successful
\* remove-friend response leaves, the home feed of neither shows a post of
\* the other.
FeedFollowsFriendship ==
    [][/\ (resp'.op = "respond" /\ resp'.code = 200 /\ resp'.status = "accepted") =>
              \A fr \in requests' : fr.id = resp'.arg =>
                  /\ FeedShows(friendships', posts', comments', reactions',
                               fr.sender_id, fr.receiver_id)
                  /\ FeedShows(friendships', posts', comments', reactions',
                               fr.receiver_id, fr.sender_id)
       /\ (resp'.op = "remove" /\ resp'.code = 200) =>
              /\ FeedHides(friendships', posts', comments', reactions',
                           resp'.user, resp'.arg)
              /\ FeedHides(friendships', posts', comments', reactions',
                           resp'.arg, resp'.user)]_vars

====
